---- MODULE Spec2Model ----
(***************************************************************************)
(* PNG metadata injection of src/App.tsx: the CRC-32 table and function,   *)
(* addPngMetadata and its caller handleDownload.                           *)
(*                                                                         *)
(* A JavaScript Number holding an integer of at most 32 bits is the pair   *)
(* <<hi, lo>> of its value hi * 65536 + lo, with lo in 0..65535 and hi in  *)
(* -32768..65535: a result of ^ or & is an Int32 (hi in -32768..32767), a  *)
(* result of >>> or of a literal such as 0xffffffff is a Uint32 (hi in     *)
(* 0..65535).  The two readings of one bit pattern are different Numbers.  *)
(* A string is the sequence of its UTF-16 code units, a Uint8Array the     *)
(* sequence of its bytes (1-based here, 0-based in the source).            *)
(***************************************************************************)
EXTENDS Integers, Sequences, FiniteSets, TLC

VARIABLES crcTable, pc, call, ret, prev, downloads,
          mounted, apiKey, recognition, recState, isListening, stopRequested,
          prompt, attachedImages, isGenerating, errorMessage, history, runs

\* the state of the PNG routines and of the calls made on them
pngVars == <<crcTable, pc, call, ret, prev, downloads>>

\* the state of the App component: its useState values and refs, the
\* recognizer behind recognitionRef, the generateImage runs in flight
uiVars ==
    <<mounted, apiKey, recognition, recState, isListening, stopRequested,
      prompt, attachedImages, isGenerating, errorMessage, history, runs>>

vars == <<pngVars, uiVars>>

-----------------------------------------------------------------------------
(* 32-bit operators of JavaScript on Numbers                               *)

RECURSIVE XorBits(_, _, _)
XorBits(a, b, n) ==
    IF n = 0 THEN 0
    ELSE (((a % 2) + (b % 2)) % 2) + (2 * XorBits(a \div 2, b \div 2, n - 1))

ToInt32(x) == <<IF x[1] >= 32768 THEN x[1] - 65536 ELSE x[1], x[2]>>

ToUint32(x) == <<IF x[1] < 0 THEN x[1] + 65536 ELSE x[1], x[2]>>

\* a ^ b: both operands ToInt32, the result an Int32
JsXor(a, b) ==
    LET ua == ToUint32(a)
        ub == ToUint32(b)
    IN  ToInt32(<<XorBits(ua[1], ub[1], 16), XorBits(ua[2], ub[2], 16)>>)

\* a >>> k for 1 <= k <= 16: the operand ToUint32, zero fill, the result a Uint32
JsUshr(a, k) ==
    LET ua == ToUint32(a)
        p  == 2 ^ k
        q  == 2 ^ (16 - k)
    IN  <<ua[1] \div p, ((ua[1] % p) * q) + (ua[2] \div p)>>

\* a & 0xff and a & 1 as small integers
JsAndLow(a, mask) == a[2] % (mask + 1)

\* a byte as a Number
ByteNum(b) == <<0, b>>

-----------------------------------------------------------------------------
(* CRC table and crc32, lines 15-35                                        *)

\* the literal 0xedb88320
Poly == <<60856, 33568>>

\* the literal 0xffffffff
AllOnes == <<65535, 65535>>

\* one pass of the loop body of lines 19-25
CrcStep(c) ==
    IF JsAndLow(c, 1) = 1 THEN JsXor(Poly, JsUshr(c, 1)) ELSE JsUshr(c, 1)

RECURSIVE CrcSteps(_, _)
CrcSteps(c, k) == IF k = 0 THEN c ELSE CrcSteps(CrcStep(c), k - 1)

\* the value stored by crcTable[n] = c at line 26
TableEntry(n) == CrcSteps(ByteNum(n), 8)

\* the module-level loop of lines 16-27
BuildCrcTable == [n \in 0..255 |-> TableEntry(n)]

\* line 32
CrcUpdate(crc, byte) ==
    JsXor(crcTable[JsAndLow(JsXor(crc, ByteNum(byte)), 255)], JsUshr(crc, 8))

\* the loop of lines 31-33 from the state st = [crc, i] (i is 1-based)
RECURSIVE CrcLoop(_, _)
CrcLoop(buf, st) ==
    IF st.i > Len(buf) THEN st.crc
    ELSE CrcLoop(buf, [crc |-> CrcUpdate(st.crc, buf[st.i]), i |-> st.i + 1])

\* lines 29-35
crc32(buf) == JsXor(CrcLoop(buf, [crc |-> AllOnes, i |-> 1]), AllOnes)

-----------------------------------------------------------------------------
(* Strings, base64 and UTF-8: atob, split, fetch of a data URL, TextEncoder *)

Comma == 44

\* the text "undefined", what atob makes of a missing argument
UndefinedText == <<117, 110, 100, 101, 102, 105, 110, 101, 100>>

\* the literal 'tEXt' of line 64
TextTag == <<116, 69, 88, 116>>

\* the literal 'IHDR' of line 87
IhdrTag == <<73, 72, 68, 82>>

\* the literal 'image/png' of line 100
PngMime == <<105, 109, 97, 103, 101, 47, 112, 110, 103>>

\* index of the first c in s at or after position i, 0 when there is none
RECURSIVE IndexFrom(_, _, _)
IndexFrom(s, c, i) ==
    IF i > Len(s) THEN 0
    ELSE IF s[i] = c THEN i
    ELSE IndexFrom(s, c, i + 1)

\* base64Data.split(',')[1] of line 40: the text between the first comma and
\* the second (or the end); undefined, which atob reads as "undefined", when
\* the string has no comma
SplitComma1(s) ==
    LET c1 == IndexFrom(s, Comma, 1)
        c2 == IF c1 = 0 THEN 0 ELSE IndexFrom(s, Comma, c1 + 1)
    IN  IF c1 = 0 THEN UndefinedText
        ELSE SubSeq(s, c1 + 1, IF c2 = 0 THEN Len(s) ELSE c2 - 1)

\* value of a base64 digit, -1 for any other code unit
B64Value(c) ==
    IF c >= 65 /\ c <= 90 THEN c - 65
    ELSE IF c >= 97 /\ c <= 122 THEN c - 71
    ELSE IF c >= 48 /\ c <= 57 THEN c + 4
    ELSE IF c = 43 THEN 62
    ELSE IF c = 47 THEN 63
    ELSE -1

IsAsciiWhitespace(c) == c \in {9, 10, 12, 13, 32}

NotWhitespace(c) == ~IsAsciiWhitespace(c)

\* up to two trailing '=' removed
StripPadding(t) ==
    LET n == Len(t)
    IN  IF n >= 2 /\ t[n] = 61 /\ t[n - 1] = 61 THEN SubSeq(t, 1, n - 2)
        ELSE IF n >= 1 /\ t[n] = 61 THEN SubSeq(t, 1, n - 1)
        ELSE t

RECURSIVE B64DecodeFrom(_, _)
B64DecodeFrom(u, i) ==
    LET n == Len(u) - i + 1
        v(k) == B64Value(u[i + k])
    IN  IF n <= 0 THEN <<>>
        ELSE IF n >= 4 THEN
            LET w == (((((v(0) * 64) + v(1)) * 64) + v(2)) * 64) + v(3)
            IN  <<w \div 65536, (w \div 256) % 256, w % 256>>
                    \o B64DecodeFrom(u, i + 4)
        ELSE IF n = 3 THEN
            LET w == ((((v(0) * 64) + v(1)) * 64) + v(2)) \div 4
            IN  <<w \div 256, w % 256>>
        ELSE <<((v(0) * 64) + v(1)) \div 16>>

\* atob of line 40 (forgiving-base64 decode): [ok, bytes]; ok = FALSE is the
\* InvalidCharacterError it throws
Atob(s) ==
    LET t == SelectSeq(s, NotWhitespace)
        u == IF Len(t) % 4 = 0 THEN StripPadding(t) ELSE t
    IN  IF Len(u) % 4 = 1 \/ \E i \in 1..Len(u) : B64Value(u[i]) < 0
        THEN [ok |-> FALSE, bytes |-> <<>>]
        ELSE [ok |-> TRUE, bytes |-> B64DecodeFrom(u, 1)]

\* the media type of a data URL: the text between "data:" and the first ';'
\* or ','
MimeOf(url) ==
    LET semi == IndexFrom(url, 59, 1)
        com  == IndexFrom(url, Comma, 1)
        stop == IF semi # 0 /\ (com = 0 \/ semi < com) THEN semi
                ELSE IF com # 0 THEN com
                ELSE Len(url) + 1
    IN  SubSeq(url, 6, stop - 1)

\* fetch(base64Data) then res.blob() of lines 50-51 on a base64 data URL: the
\* body after the first comma, forgiving-base64 decoded; ok = FALSE is the
\* network error fetch rejects with
FetchBlob(url) ==
    LET c1 == IndexFrom(url, Comma, 1)
        d  == Atob(SubSeq(url, c1 + 1, Len(url)))
    IN  IF c1 = 0 THEN [ok |-> FALSE, bytes |-> <<>>, type |-> <<>>]
        ELSE [ok |-> d.ok, bytes |-> d.bytes, type |-> MimeOf(url)]

IsHighSurrogate(c) == c >= 55296 /\ c <= 56319

IsLowSurrogate(c) == c >= 56320 /\ c <= 57343

\* TextEncoder.encode of lines 57-58 and 64: UTF-8 of a UTF-16 string, a lone
\* surrogate encoded as U+FFFD
RECURSIVE Utf8From(_, _)
Utf8From(s, i) ==
    IF i > Len(s) THEN <<>>
    ELSE LET c == s[i]
         IN  IF c < 128 THEN <<c>> \o Utf8From(s, i + 1)
             ELSE IF c < 2048 THEN
                 <<192 + (c \div 64), 128 + (c % 64)>> \o Utf8From(s, i + 1)
             ELSE IF IsHighSurrogate(c) /\ i < Len(s) /\ IsLowSurrogate(s[i + 1]) THEN
                 LET cp == 65536 + ((c - 55296) * 1024) + (s[i + 1] - 56320)
                 IN  <<240 + (cp \div 262144), 128 + ((cp \div 4096) % 64),
                       128 + ((cp \div 64) % 64), 128 + (cp % 64)>>
                         \o Utf8From(s, i + 2)
             ELSE IF IsHighSurrogate(c) \/ IsLowSurrogate(c) THEN
                 <<239, 191, 189>> \o Utf8From(s, i + 1)
             ELSE <<224 + (c \div 4096), 128 + ((c \div 64) % 64), 128 + (c % 64)>>
                      \o Utf8From(s, i + 1)

Encode(s) == Utf8From(s, 1)

-----------------------------------------------------------------------------
(* addPngMetadata, lines 38-101                                            *)

\* a small non-negative integer as a Number
IntNum(n) == <<n \div 65536, n % 65536>>

\* DataView.setUint32(_, x, false): the four big-endian bytes of ToUint32(x)
Uint32Bytes(x) ==
    LET u == ToUint32(x)
    IN  <<u[1] \div 256, u[1] % 256, u[2] \div 256, u[2] % 256>>

\* bytes[i] of a Uint8Array, 0-based; -1 stands for undefined
At(bytes, i) == IF i >= 0 /\ i < Len(bytes) THEN bytes[i + 1] ELSE -1

\* as HasPngSignature, looking at the first byte only
HasPngSignature_FirstByteOnly(bytes) == ~(At(bytes, 0) # 137)

\* the test of line 48, TRUE when the four bytes are the PNG signature's
HasPngSignature(bytes) ==
    ~(At(bytes, 0) # 137 \/ At(bytes, 1) # 80 \/ At(bytes, 2) # 78 \/ At(bytes, 3) # 71)

\* as ChunkData, without the separator of line 61
ChunkData_NoSeparator(key, text) == Encode(key) \o Encode(text)

\* lines 59-62
ChunkData(key, text) == Encode(key) \o <<0>> \o Encode(text)

\* as ChunkCrc, over the data without the type tag
ChunkCrc_DataOnly(key, text) == crc32(Encode(key) \o <<0>> \o Encode(text))

\* lines 64-69
ChunkCrc(key, text) == crc32(Encode(TextTag) \o ChunkData(key, text))

\* lines 72-79
FullChunk(key, text) ==
    LET chunkData == ChunkData(key, text)
    IN  Uint32Bytes(IntNum(Len(chunkData))) \o Encode(TextTag) \o chunkData
            \o Uint32Bytes(ChunkCrc(key, text))

\* DataView.getUint32(pos, false) of line 85, for pos + 4 <= bytes.length
GetUint32(bytes, pos) ==
    (((((At(bytes, pos) * 256) + At(bytes, pos + 1)) * 256)
        + At(bytes, pos + 2)) * 256) + At(bytes, pos + 3)

\* String.fromCharCode of line 86: an undefined byte gives code unit 0
CharCode(b) == IF b < 0 THEN 0 ELSE b

TypeAt(bytes, pos) ==
    <<CharCode(At(bytes, pos + 4)), CharCode(At(bytes, pos + 5)),
      CharCode(At(bytes, pos + 6)), CharCode(At(bytes, pos + 7))>>

\* as FindInsertPos, with line 88 moving past length, type and data but not
\* the CRC
RECURSIVE FindInsertPos_NoCrc(_, _)
FindInsertPos_NoCrc(bytes, pos) ==
    IF ~(pos < Len(bytes)) THEN [ok |-> TRUE, pos |-> pos]
    ELSE IF pos + 4 > Len(bytes) THEN [ok |-> FALSE, pos |-> pos]
    ELSE LET len == GetUint32(bytes, pos)
         IN  IF TypeAt(bytes, pos) = IhdrTag
             THEN [ok |-> TRUE, pos |-> pos + 8 + len]
             ELSE FindInsertPos_NoCrc(bytes, pos + 12 + len)

\* as FindInsertPos, without the break of line 89
RECURSIVE FindInsertPos_NoBreak(_, _)
FindInsertPos_NoBreak(bytes, pos) ==
    IF ~(pos < Len(bytes)) THEN [ok |-> TRUE, pos |-> pos]
    ELSE IF pos + 4 > Len(bytes) THEN [ok |-> FALSE, pos |-> pos]
    ELSE FindInsertPos_NoBreak(bytes, pos + 12 + GetUint32(bytes, pos))

\* the loop of lines 83-92 from cursor pos: [ok, pos]; ok = FALSE is the
\* RangeError getUint32 throws when fewer than 4 bytes remain at pos
RECURSIVE FindInsertPos(_, _)
FindInsertPos(bytes, pos) ==
    IF ~(pos < Len(bytes)) THEN [ok |-> TRUE, pos |-> pos]
    ELSE IF pos + 4 > Len(bytes) THEN [ok |-> FALSE, pos |-> pos]
    ELSE LET len == GetUint32(bytes, pos)
         IN  IF TypeAt(bytes, pos) = IhdrTag
             THEN [ok |-> TRUE, pos |-> pos + 12 + len]
             ELSE FindInsertPos(bytes, pos + 12 + len)

\* bytes.slice(a, b) with both ends clamped to the array
Slice(bytes, a, b) ==
    LET lo == IF a > Len(bytes) THEN Len(bytes) ELSE a
        hi == IF b > Len(bytes) THEN Len(bytes) ELSE b
    IN  SubSeq(bytes, lo + 1, hi)

\* as Splice, with the offset clamped to the input instead of a RangeError
Splice_Clamped(bytes, fullChunk, pos) ==
    [ok |-> TRUE,
     bytes |-> Slice(bytes, 0, pos) \o fullChunk \o Slice(bytes, pos, Len(bytes))]

\* as Splice, refusing an offset at the very end of the input
Splice_StrictEnd(bytes, fullChunk, pos) ==
    IF pos >= Len(bytes)
    THEN [ok |-> FALSE, bytes |-> <<>>]
    ELSE [ok |-> TRUE,
          bytes |-> Slice(bytes, 0, pos) \o fullChunk \o Slice(bytes, pos, Len(bytes))]

\* lines 95-98: [ok, bytes]; ok = FALSE is the RangeError of
\* newBytes.set(fullChunk, pos) when pos + fullChunk.length exceeds the new
\* array (pos beyond the end of the input)
Splice(bytes, fullChunk, pos) ==
    IF pos + Len(fullChunk) > Len(bytes) + Len(fullChunk)
    THEN [ok |-> FALSE, bytes |-> <<>>]
    ELSE [ok |-> TRUE,
          bytes |-> Slice(bytes, 0, pos) \o fullChunk \o Slice(bytes, pos, Len(bytes))]

Thrown(name) ==
    [kind |-> "throw", error |-> name, type |-> <<>>, bytes |-> <<>>,
     input |-> <<>>, chunk |-> <<>>, pos |-> -1]

\* what the promise of addPngMetadata settles to: a Blob (kind "blob": its
\* type and bytes, with the decoded input, and on the PNG path the chunk
\* built and the insertion offset) or a rejection (kind "throw")
addPngMetadata(base64Data, key, text) ==
    LET dec   == Atob(SplitComma1(base64Data))
        bytes == dec.bytes
    IN  IF ~dec.ok THEN Thrown("InvalidCharacterError")
        ELSE IF ~HasPngSignature(bytes) THEN
            LET res == FetchBlob(base64Data)
            IN  IF ~res.ok THEN Thrown("TypeError")
                ELSE [kind |-> "blob", error |-> "", type |-> res.type,
                      bytes |-> res.bytes, input |-> bytes, chunk |-> <<>>,
                      pos |-> -1]
        ELSE
            LET fullChunk == FullChunk(key, text)
                scan      == FindInsertPos(bytes, 8)
                out       == Splice(bytes, fullChunk, scan.pos)
            IN  IF ~scan.ok \/ ~out.ok THEN Thrown("RangeError")
                ELSE [kind |-> "blob", error |-> "", type |-> PngMime,
                      bytes |-> out.bytes, input |-> bytes, chunk |-> fullChunk,
                      pos |-> scan.pos]

-----------------------------------------------------------------------------
(* handleDownload, lines 183-204                                           *)

\* the literal 'Description' of line 186
DescriptionKey == <<68, 101, 115, 99, 114, 105, 112, 116, 105, 111, 110>>

\* a.click() of line 193, on the object URL of the blob
BlobClicks(r, img) ==
    IF r.kind = "blob"
    THEN <<[href |-> "blob", content |-> r.bytes, download |-> img.id]>>
    ELSE <<>>

\* as FallbackClicks, the catch block only logging
FallbackClicks_None(r, img) == <<>>

\* a.click() of line 202 in the catch block, on the original img.url
FallbackClicks(r, img) ==
    IF r.kind = "throw"
    THEN <<[href |-> "url", content |-> img.url, download |-> img.id]>>
    ELSE <<>>

\* the downloads one run of handleDownload triggers, in order
DownloadClicks(r, img) == BlobClicks(r, img) \o FallbackClicks(r, img)

-----------------------------------------------------------------------------
(* The inputs the calls are made on                                        *)

MaxChunks == 2

MaxBufLen == 2

\* the base64 digit of a 6-bit value
B64Digit(v) ==
    IF v < 26 THEN v + 65
    ELSE IF v < 52 THEN v + 71
    ELSE IF v < 62 THEN v - 4
    ELSE IF v = 62 THEN 43
    ELSE 47

\* standard padded base64 of a byte sequence, as the image API sends it
RECURSIVE Base64From(_, _)
Base64From(b, i) ==
    LET n == Len(b) - i + 1
    IN  IF n <= 0 THEN <<>>
        ELSE IF n >= 3 THEN
            LET w == (((b[i] * 256) + b[i + 1]) * 256) + b[i + 2]
            IN  <<B64Digit(w \div 262144), B64Digit((w \div 4096) % 64),
                  B64Digit((w \div 64) % 64), B64Digit(w % 64)>>
                    \o Base64From(b, i + 3)
        ELSE IF n = 2 THEN
            LET w == ((b[i] * 256) + b[i + 1]) * 4
            IN  <<B64Digit(w \div 4096), B64Digit((w \div 64) % 64),
                  B64Digit(w % 64), 61>>
        ELSE <<B64Digit(b[i] \div 4), B64Digit((b[i] % 4) * 16), 61, 61>>

\* "data:image/png;base64," and "data:image/jpeg;base64,"
PngUrlPrefix ==
    <<100, 97, 116, 97, 58, 105, 109, 97, 103, 101, 47, 112, 110, 103, 59,
      98, 97, 115, 101, 54, 52, 44>>

JpegUrlPrefix ==
    <<100, 97, 116, 97, 58, 105, 109, 97, 103, 101, 47, 106, 112, 101, 103,
      59, 98, 97, 115, 101, 54, 52, 44>>

\* the url of a generated image, line 283
PngUrl(bytes) == PngUrlPrefix \o Base64From(bytes, 1)

JpegUrl(bytes) == JpegUrlPrefix \o Base64From(bytes, 1)

\* the 8-byte PNG signature, and one with the last four bytes wrong (only the
\* first four are looked at)
Signature == <<137, 80, 78, 71, 13, 10, 26, 10>>

HalfSignature == <<137, 80, 78, 71, 0, 1, 2, 3>>

IdatTag == <<73, 68, 65, 84>>

\* a chunk of n data bytes: length, type, data, four bytes of CRC (the scan
\* never checks them)
Chunk(type, n) ==
    Uint32Bytes(IntNum(n)) \o type \o [i \in 1..n |-> 16 + i] \o <<222, 173, 190, 239>>

ChunkKinds == {IhdrTag, IdatTag} \X {0, 1}

RECURSIVE ChunkSeqs(_)
ChunkSeqs(k) ==
    IF k = 0 THEN {<<>>}
    ELSE LET shorter == ChunkSeqs(k - 1)
         IN  shorter \cup {s \o Chunk(c[1], c[2]) : s \in shorter, c \in ChunkKinds}

\* what may follow the last whole chunk: nothing; two stray bytes; a chunk
\* header whose length runs past the end, of type IDAT and of type IHDR
Tails ==
    {<<>>, <<0, 0>>, <<0, 0, 0, 9>> \o IdatTag \o <<1>>,
     <<0, 0, 0, 9>> \o IhdrTag \o <<1>>}

\* buffers that begin with the four signature bytes
SignedBuffers ==
    {Signature \o s \o t : s \in ChunkSeqs(MaxChunks), t \in Tails}
        \cup {HalfSignature \o s : s \in ChunkSeqs(MaxChunks)}
        \cup {<<137, 80, 78, 71>>, <<137, 80, 78, 71, 13, 10>>}

\* buffers that do not: empty, shorter than four bytes, a JPEG header, a
\* signature with one byte wrong followed by a chunk
OtherBuffers ==
    {<<>>, <<137>>, <<137, 80, 78>>, <<255, 216, 255, 224, 0, 16, 74, 70>>,
     <<137, 80, 78, 70, 13, 10, 26, 10>> \o Chunk(IhdrTag, 1)}

\* data URLs that are not "data:<mime>;base64,<base64 payload>": no comma at
\* all, a payload with a character outside the alphabet, a payload of 4k+1
\* characters
MalformedUrls ==
    {SubSeq(PngUrlPrefix, 1, Len(PngUrlPrefix) - 1),
     PngUrlPrefix \o <<105, 86, 66, 79, 42, 119, 61, 61>>,
     PngUrlPrefix \o <<105, 86, 66, 79, 82>>}

\* well-formed data URLs whose payload is unpadded or holds white space:
\* "iVBORw0KGgo" and "iVBO Rw0K\nGgo=" (the eight signature bytes), "/9j/4A"
LenientUrls ==
    {PngUrlPrefix \o <<105, 86, 66, 79, 82, 119, 48, 75, 71, 103, 111>>,
     PngUrlPrefix \o <<105, 86, 66, 79, 32, 82, 119, 48, 75, 10, 71, 103, 111, 61>>,
     JpegUrlPrefix \o <<47, 57, 106, 47, 52, 65>>}

Urls ==
    {PngUrl(b) : b \in SignedBuffers \cup OtherBuffers}
        \cup {JpegUrl(b) : b \in OtherBuffers}
        \cup MalformedUrls \cup LenientUrls

\* key and text pairs: 'Description'/'hello'; both empty; a key holding
\* U+0000; Latin-1 letters and a text holding U+0000; a surrogate pair and a
\* lone surrogate; an ASCII key with a text holding U+0000
KeyTextPairs ==
    {<<DescriptionKey, <<104, 101, 108, 108, 111>>>>,
     <<<<>>, <<>>>>,
     <<<<107, 0, 120>>, <<97>>>>,
     <<<<233>>, <<252, 0, 98>>>>,
     <<<<55357, 56832>>, <<55357>>>>,
     <<<<97>>, <<98, 0, 99>>>>}

\* prompts of history entries: never empty (line 295)
Prompts == {<<104, 101, 108, 108, 111>>, <<111, 108, 225>>}

Images == {[id |-> "1", url |-> u, prompt |-> p] : u \in Urls, p \in Prompts}

RECURSIVE SeqsUpTo(_, _)
SeqsUpTo(S, n) ==
    IF n = 0 THEN {<<>>}
    ELSE LET shorter == SeqsUpTo(S, n - 1)
         IN  shorter \cup {Append(s, x) : s \in shorter, x \in S}

\* arguments of crc32: short sequences, and the ASCII bytes of "123456789"
CrcInputs ==
    SeqsUpTo({0, 97, 255}, MaxBufLen) \cup {<<49, 50, 51, 52, 53, 54, 55, 56, 57>>}

-----------------------------------------------------------------------------
(* State and operations                                                    *)

NoCall == [op |-> "none", url |-> <<>>, key |-> <<>>, text |-> <<>>, buf |-> <<>>]

NoResult ==
    [kind |-> "none", error |-> "", type |-> <<>>, bytes |-> <<>>,
     input |-> <<>>, chunk |-> <<>>, pos |-> -1, value |-> <<0, 0>>]

\* a settled promise of addPngMetadata as a result record
Settled(r) ==
    [kind |-> r.kind, error |-> r.error, type |-> r.type, bytes |-> r.bytes,
     input |-> r.input, chunk |-> r.chunk, pos |-> r.pos, value |-> <<0, 0>>]

Init ==
    /\ crcTable = BuildCrcTable
    /\ pc = "idle"
    /\ call = NoCall
    /\ ret = NoResult
    /\ prev = NoResult
    /\ downloads = <<>>
    /\ mounted = FALSE
    /\ apiKey = "unread"
    /\ recognition = FALSE
    /\ recState = "idle"
    /\ isListening = FALSE
    /\ stopRequested = FALSE
    /\ prompt = <<>>
    /\ attachedImages = 0
    /\ isGenerating = FALSE
    /\ errorMessage = "null"
    /\ history = 0
    /\ runs = <<>>

\* a call crc32(buf)
Crc32Call(buf) ==
    /\ pc = "idle"
    /\ pc' = "returned"
    /\ call' = [NoCall EXCEPT !.op = "crc32", !.buf = buf]
    /\ ret' = [NoResult EXCEPT !.kind = "number", !.value = crc32(buf)]
    /\ UNCHANGED <<crcTable, prev, downloads, uiVars>>

\* a call addPngMetadata(url, key, text), to the settling of its promise
AddPngMetadataCall(url, key, text) ==
    /\ pc = "idle"
    /\ pc' = "returned"
    /\ call' = [NoCall EXCEPT !.op = "addPngMetadata", !.url = url,
                              !.key = key, !.text = text]
    /\ ret' = Settled(addPngMetadata(url, key, text))
    /\ UNCHANGED <<crcTable, prev, downloads, uiVars>>

\* addPngMetadata again, on the blob the last call returned with a chunk
\* inserted, with the same key and text
InjectAgain ==
    /\ pc = "returned"
    /\ call.op = "addPngMetadata"
    /\ ret.kind = "blob"
    /\ ret.pos >= 0
    /\ prev.kind = "none"
    /\ prev' = ret
    /\ call' = [call EXCEPT !.url = PngUrl(ret.bytes)]
    /\ ret' = Settled(addPngMetadata(PngUrl(ret.bytes), call.key, call.text))
    /\ UNCHANGED <<crcTable, pc, downloads, uiVars>>

\* one run of handleDownload(img), lines 183-204
HandleDownload(img) ==
    /\ pc = "idle"
    /\ pc' = "returned"
    /\ call' = [NoCall EXCEPT !.op = "handleDownload", !.url = img.url,
                              !.key = DescriptionKey, !.text = img.prompt]
    /\ LET r == addPngMetadata(img.url, DescriptionKey, img.prompt)
       IN  /\ ret' = Settled(r)
           /\ downloads' = DownloadClicks(r, img)
    /\ UNCHANGED <<crcTable, prev, uiVars>>

\* the caller is done with the result
Return ==
    /\ pc = "returned"
    /\ pc' = "idle"
    /\ call' = NoCall
    /\ ret' = NoResult
    /\ prev' = NoResult
    /\ downloads' = <<>>
    /\ UNCHANGED <<crcTable, uiVars>>

Next ==
    \/ \E buf \in CrcInputs : Crc32Call(buf)
    \/ \E u \in Urls, kt \in KeyTextPairs : AddPngMetadataCall(u, kt[1], kt[2])
    \/ InjectAgain
    \/ \E img \in Images : HandleDownload(img)
    \/ Return

Spec == Init /\ [][Next]_vars
-----------------------------------------------------------------------------
(* The App component, lines 104-312 and 505-542: voice input and            *)
(* generateImage.  prompt is a string of code units; attachedImages and     *)
(* history are held by their lengths; a run of generateImage in flight is   *)
(* the await it is suspended at.                                            *)

MaxRuns == 2

MaxPromptLen == 3

MaxAttached == 1

MaxHistory == 1

\* what the user types into the textarea: nothing, a blank, a letter
TypedPrompts == {<<>>, <<32>>, <<103>>}

\* what the recognizer hears
Transcripts == {<<103>>}

\* String.prototype.trim, on strings whose only white space is U+0020
RECURSIVE TrimStart(_)
TrimStart(str) ==
    IF str # <<>> /\ Head(str) = 32 THEN TrimStart(Tail(str)) ELSE str

RECURSIVE TrimEnd(_)
TrimEnd(str) ==
    IF str # <<>> /\ str[Len(str)] = 32 THEN TrimEnd(SubSeq(str, 1, Len(str) - 1))
    ELSE str

Trim(str) == TrimEnd(TrimStart(str))

\* the sequence s without its i-th element
RemoveAt(s, i) == SubSeq(s, 1, i - 1) \o SubSeq(s, i + 1, Len(s))

\* the page loads and the effect of lines 119-143 runs: a recognizer is made
\* when the browser has SpeechRecognition; window.process.env.API_KEY is what
\* index.html set
Mount(hasSpeechRecognition, key) ==
    /\ ~mounted
    /\ mounted' = TRUE
    /\ recognition' = hasSpeechRecognition
    /\ apiKey' = key
    /\ UNCHANGED <<recState, isListening, stopRequested, prompt, attachedImages,
                   isGenerating, errorMessage, history, runs, pngVars>>

\* toggleListening, lines 145-152.  stop() on a started recognizer makes it
\* end; start() on a started recognizer throws InvalidStateError, after
\* setIsListening(true); with no recognizer both calls are skipped by ?.
ToggleListening ==
    /\ mounted
    /\ IF isListening
       THEN /\ stopRequested' = TRUE
            /\ UNCHANGED <<isListening, recState>>
       ELSE /\ isListening' = TRUE
            /\ stopRequested' = FALSE
            /\ recState' = IF recognition THEN "started" ELSE recState
    /\ UNCHANGED <<mounted, apiKey, recognition, prompt, attachedImages,
                   isGenerating, errorMessage, history, runs, pngVars>>

\* onresult, lines 129-133: the recognizer is started and delivers a result
OnResult(transcript) ==
    /\ recognition /\ recState = "started"
    /\ Len(prompt) + 1 + Len(transcript) <= MaxPromptLen
    /\ prompt' = IF prompt # <<>> THEN prompt \o <<32>> \o transcript ELSE transcript
    /\ isListening' = FALSE
    /\ stopRequested' = FALSE
    /\ UNCHANGED <<mounted, apiKey, recognition, recState, attachedImages,
                   isGenerating, errorMessage, history, runs, pngVars>>

\* onerror, lines 135-137
OnError ==
    /\ recognition /\ recState = "started"
    /\ isListening' = FALSE
    /\ stopRequested' = FALSE
    /\ UNCHANGED <<mounted, apiKey, recognition, recState, prompt, attachedImages,
                   isGenerating, errorMessage, history, runs, pngVars>>

\* onend, lines 139-141: the started recognizer ends
OnEnd ==
    /\ recognition /\ recState = "started"
    /\ recState' = "idle"
    /\ isListening' = FALSE
    /\ stopRequested' = FALSE
    /\ UNCHANGED <<mounted, apiKey, recognition, prompt, attachedImages,
                   isGenerating, errorMessage, history, runs, pngVars>>

\* onChange of the textarea, line 510
TypePrompt(text) ==
    /\ mounted
    /\ prompt # text
    /\ prompt' = text
    /\ UNCHANGED <<mounted, apiKey, recognition, recState, isListening,
                   stopRequested, attachedImages, isGenerating, errorMessage,
                   history, runs, pngVars>>

\* handlePaste of an image, lines 154-170, to the onload of its reader
PasteImage ==
    /\ mounted
    /\ attachedImages < MaxAttached
    /\ attachedImages' = attachedImages + 1
    /\ UNCHANGED <<mounted, apiKey, recognition, recState, isListening,
                   stopRequested, prompt, isGenerating, errorMessage, history,
                   runs, pngVars>>

\* removeImage, lines 172-174
RemoveImage ==
    /\ mounted
    /\ attachedImages > 0
    /\ attachedImages' = attachedImages - 1
    /\ UNCHANGED <<mounted, apiKey, recognition, recState, isListening,
                   stopRequested, prompt, isGenerating, errorMessage, history,
                   runs, pngVars>>

\* generateImage from its call to its first await, lines 206-228 and 270: the
\* two validation returns, then setIsGenerating(true) and the request the run
\* suspends at (the translation when the prompt is not blank)
GenerateImageStart ==
    /\ IF apiKey # "valid"
       THEN /\ errorMessage' = "apiKey"
            /\ UNCHANGED <<isGenerating, runs>>
       ELSE IF Trim(prompt) = <<>> /\ attachedImages = 0
       THEN /\ errorMessage' = "noInput"
            /\ UNCHANGED <<isGenerating, runs>>
       ELSE /\ Len(runs) < MaxRuns
            /\ isGenerating' = TRUE
            /\ errorMessage' = "null"
            /\ runs' = Append(runs, IF Trim(prompt) # <<>> THEN "translate"
                                    ELSE "generate")
    /\ UNCHANGED <<mounted, apiKey, recognition, recState, isListening,
                   stopRequested, prompt, attachedImages, history, pngVars>>

\* the send button, lines 531-533: disabled while isGenerating or with
\* nothing to send
ClickSend ==
    /\ mounted
    /\ ~(isGenerating \/ (Trim(prompt) = <<>> /\ attachedImages = 0))
    /\ GenerateImageStart

\* Enter without Shift in the textarea, lines 514-519
PressEnter ==
    /\ mounted
    /\ GenerateImageStart

\* the translation request of run i settles, lines 228-240: a failure is
\* caught and the run goes on to the image request either way
TranslationSettles(i) ==
    /\ i \in 1..Len(runs)
    /\ runs[i] = "translate"
    /\ runs' = [runs EXCEPT ![i] = "generate"]
    /\ UNCHANGED <<mounted, apiKey, recognition, recState, isListening,
                   stopRequested, prompt, attachedImages, isGenerating,
                   errorMessage, history, pngVars>>

\* the image request of run i settles, lines 270-311: with an image (the
\* history grows, prompt and attachments are cleared), or without one or with
\* an error (errorMessage is set); the finally block sets isGenerating false
ImageSettles(i, withImage) ==
    /\ i \in 1..Len(runs)
    /\ runs[i] = "generate"
    /\ IF withImage
       THEN /\ history < MaxHistory
            /\ history' = history + 1
            /\ prompt' = <<>>
            /\ attachedImages' = 0
            /\ UNCHANGED errorMessage
       ELSE /\ errorMessage' = "failed"
            /\ UNCHANGED <<history, prompt, attachedImages>>
    /\ isGenerating' = FALSE
    /\ runs' = RemoveAt(runs, i)
    /\ UNCHANGED <<mounted, apiKey, recognition, recState, isListening,
                   stopRequested, pngVars>>

\* clearHistory, lines 314-318, confirmed
ClearHistory ==
    /\ mounted
    /\ history > 0
    /\ history' = 0
    /\ UNCHANGED <<mounted, apiKey, recognition, recState, isListening,
                   stopRequested, prompt, attachedImages, isGenerating,
                   errorMessage, runs, pngVars>>

NextUi ==
    \/ \E sr \in BOOLEAN, key \in {"valid", "missing"} : Mount(sr, key)
    \/ ToggleListening
    \/ \E t \in Transcripts : OnResult(t)
    \/ OnError
    \/ OnEnd
    \/ \E text \in TypedPrompts : TypePrompt(text)
    \/ PasteImage
    \/ RemoveImage
    \/ ClickSend
    \/ PressEnter
    \/ \E i \in 1..MaxRuns : TranslationSettles(i)
    \/ \E i \in 1..MaxRuns, withImage \in BOOLEAN : ImageSettles(i, withImage)
    \/ ClearHistory

SpecUi == Init /\ [][NextUi]_vars

\* the recognizer's callbacks are delivered: a started recognizer ends
RecognizerCallbacks == (\E t \in Transcripts : OnResult(t)) \/ OnError \/ OnEnd

SpecUiFair == SpecUi /\ WF_vars(OnEnd) /\ WF_vars(RecognizerCallbacks)

-----------------------------------------------------------------------------
(* Reference definitions the properties are stated with                    *)

\* the call whose result is in ret was a run of addPngMetadata
Injecting == pc = "returned" /\ call.op \in {"addPngMetadata", "handleDownload"}

\* the run returned a blob with a chunk inserted
Injected == Injecting /\ ret.kind = "blob" /\ ret.pos >= 0

\* the decoding of the data URL of the current call
Decoded == Atob(SplitComma1(call.url))

StartsWithSignature(b) == Len(b) >= 4 /\ SubSeq(b, 1, 4) = <<137, 80, 78, 71>>

\* the big-endian number in the four bytes at 0-based offset pos
BigEndian(b, pos) ==
    (((((b[pos + 1] * 256) + b[pos + 2]) * 256) + b[pos + 3]) * 256) + b[pos + 4]

\* every chunk from offset pos lies inside the buffer with its 12 + length bytes
RECURSIVE WellFormedFrom(_, _)
WellFormedFrom(b, pos) ==
    IF pos = Len(b) THEN TRUE
    ELSE IF pos + 12 > Len(b) THEN FALSE
    ELSE LET next == pos + 12 + BigEndian(b, pos)
         IN  next <= Len(b) /\ WellFormedFrom(b, next)

\* the offset just past the first IHDR chunk of a well-formed chunk sequence
\* from offset pos, -1 when it has none
RECURSIVE FirstIhdrEnd(_, _)
FirstIhdrEnd(b, pos) ==
    IF pos >= Len(b) THEN -1
    ELSE IF SubSeq(b, pos + 5, pos + 8) = <<73, 72, 68, 82>>
         THEN pos + 12 + BigEndian(b, pos)
         ELSE FirstIhdrEnd(b, pos + 12 + BigEndian(b, pos))

\* a signature-prefixed buffer with a well-formed chunk sequence holding IHDR
ValidPng(b) ==
    /\ StartsWithSignature(b)
    /\ Len(b) >= 8
    /\ WellFormedFrom(b, 8)
    /\ FirstIhdrEnd(b, 8) # -1

\* standard CRC-32 (reflected polynomial 0xEDB88320, initial value and final
\* XOR 0xFFFFFFFF), bit by bit on unsigned 32-bit values <<hi, lo>>
RefXor(a, b) == <<XorBits(a[1], b[1], 16), XorBits(a[2], b[2], 16)>>

RefShr1(a) == <<a[1] \div 2, ((a[1] % 2) * 32768) + (a[2] \div 2)>>

RefBit(a) == IF a[2] % 2 = 1 THEN RefXor(RefShr1(a), <<60856, 33568>>) ELSE RefShr1(a)

RefByte(a) == RefBit(RefBit(RefBit(RefBit(RefBit(RefBit(RefBit(RefBit(a))))))))

RECURSIVE RefCrcLoop(_, _)
RefCrcLoop(b, st) ==
    IF st.i > Len(b) THEN st.reg
    ELSE RefCrcLoop(b, [reg |-> RefByte(RefXor(st.reg, <<0, b[st.i]>>)), i |-> st.i + 1])

RefCrc32(b) == RefXor(RefCrcLoop(b, [reg |-> <<65535, 65535>>, i |-> 1]), <<65535, 65535>>)

\* an unsigned 32-bit value as four big-endian bytes
RefBytes(u) == <<u[1] \div 256, u[1] % 256, u[2] \div 256, u[2] % 256>>

-----------------------------------------------------------------------------
(* Properties                                                              *)

\* C1: on a signature-prefixed input whose chunks from offset 8 are well formed
\* and hold an IHDR chunk, addPngMetadata returns bytes[0..p) followed by the
\* assembled chunk followed by bytes[p..end), p the offset just past the first
\* IHDR chunk; the output is 12 + (key bytes + 1 + text bytes) longer than the
\* input.
C1_InsertedAfterIhdr ==
    (Injecting /\ Decoded.ok /\ ValidPng(Decoded.bytes)) =>
        LET b == Decoded.bytes
            p == FirstIhdrEnd(b, 8)
        IN  /\ ret.kind = "blob"
            /\ ret.bytes = SubSeq(b, 1, p) \o ret.chunk \o SubSeq(b, p + 1, Len(b))
            /\ Len(ret.chunk) = 12 + (Len(Encode(call.key)) + 1 + Len(Encode(call.text)))
            /\ Len(ret.bytes) =
                   Len(b) + 12 + (Len(Encode(call.key)) + 1 + Len(Encode(call.text)))

\* a minimal PNG (signature, IHDR, one more chunk) given 'Description'/'hello':
\* the chunk went in at offset 21, before the chunk that followed IHDR
C1_Witness ==
    /\ Injecting /\ Decoded.ok /\ ValidPng(Decoded.bytes)
    /\ call.key = DescriptionKey /\ call.text = <<104, 101, 108, 108, 111>>
    /\ ret.kind = "blob" /\ ret.pos = 21 /\ Len(Decoded.bytes) > 21
    /\ Len(ret.bytes) = Len(Decoded.bytes) + 29

C3_ChunkLayout ==
    Injected =>
        LET c == ret.chunk
            k == Encode(call.key)
            t == Encode(call.text)
            n == Len(k) + 1 + Len(t)
        IN  /\ Len(c) = 12 + n
            /\ SubSeq(c, 1, 4) = RefBytes(<<n \div 65536, n % 65536>>)
            /\ SubSeq(c, 5, 8) = <<116, 69, 88, 116>>
            /\ SubSeq(c, 9, 8 + Len(k)) = k
            /\ c[9 + Len(k)] = 0
            /\ SubSeq(c, 10 + Len(k), 8 + n) = t
            /\ SubSeq(c, 9 + n, 12 + n) = RefBytes(RefCrc32(SubSeq(c, 5, 8 + n)))

\* a chunk was assembled for 'Description'/'hello': 29 bytes
C3_Witness ==
    /\ Injected
    /\ call.key = DescriptionKey /\ call.text = <<104, 101, 108, 108, 111>>
    /\ Len(ret.chunk) = 29

\* a tEXt reader on the chunk at the insertion offset of the output: the
\* payload, its keyword (the bytes before the first zero byte) and its text
\* (the bytes after it), decoded as Latin-1, one code unit per byte
InsertedPayload ==
    SubSeq(ret.bytes, ret.pos + 9, ret.pos + 8 + BigEndian(ret.bytes, ret.pos))

RECURSIVE FirstZero(_, _)
FirstZero(b, i) ==
    IF i > Len(b) THEN 0 ELSE IF b[i] = 0 THEN i ELSE FirstZero(b, i + 1)

Latin1(b) == [i \in 1..Len(b) |-> b[i]]

ReadKeyword(payload) ==
    LET z == FirstZero(payload, 1)
    IN  Latin1(IF z = 0 THEN payload ELSE SubSeq(payload, 1, z - 1))

ReadText(payload) ==
    LET z == FirstZero(payload, 1)
    IN  Latin1(IF z = 0 THEN <<>> ELSE SubSeq(payload, z + 1, Len(payload)))

IsAscii(str) == \A i \in 1..Len(str) : str[i] < 128

HasNul(str) == \E i \in 1..Len(str) : str[i] = 0

\* C4 as claimed: for every key and text, the reader recovers exactly the key
\* and the text.
C4_RoundTripAnyKey ==
    Injected =>
        /\ ReadKeyword(InsertedPayload) = call.key
        /\ ReadText(InsertedPayload) = call.text

\* C4 as amended: for every key without U+0000 and every key and text made of
\* ASCII characters only (the text may hold U+0000), the reader recovers
\* exactly the key and the text.
C4_RoundTripAsciiKey ==
    (Injected /\ ~HasNul(call.key) /\ IsAscii(call.key) /\ IsAscii(call.text)) =>
        /\ ReadKeyword(InsertedPayload) = call.key
        /\ ReadText(InsertedPayload) = call.text

\* key "a" and a text holding U+0000 were read back from the output
C4_Witness ==
    /\ Injected
    /\ call.key = <<97>> /\ call.text = <<98, 0, 99>>
    /\ ReadKeyword(InsertedPayload) = <<97>>
    /\ ReadText(InsertedPayload) = <<98, 0, 99>>

\* C5: the number crc32(b) returns is the standard CRC-32 of b as an unsigned
\* 32-bit value in [0, 2^32).
C5_Crc32IsUnsignedStandard ==
    (pc = "returned" /\ call.op = "crc32") =>
        /\ ret.value = RefCrc32(call.buf)
        /\ ret.value[1] >= 0

\* the scan from offset pos reads no IHDR type before the buffer ends (a
\* cursor with fewer than four bytes left reads nothing)
RECURSIVE NoIhdrScanned(_, _)
NoIhdrScanned(b, pos) ==
    IF pos + 4 > Len(b) THEN TRUE
    ELSE LET type == [i \in 1..4 |-> IF pos + 4 + i <= Len(b) THEN b[pos + 4 + i] ELSE 0]
         IN  type # <<73, 72, 68, 82>> /\ NoIhdrScanned(b, pos + 12 + BigEndian(b, pos))

\* C6 as claimed: a signature-prefixed buffer in which the scan finds no IHDR
\* chunk (no chunks at all, shorter than 8 bytes, a last chunk running past
\* the end) comes back whole, followed by the assembled chunk.
C6_AppendedWheneverNoIhdr ==
    (Injecting /\ Decoded.ok /\ StartsWithSignature(Decoded.bytes)
        /\ NoIhdrScanned(Decoded.bytes, 8)) =>
        /\ ret.kind = "blob"
        /\ ret.bytes = Decoded.bytes \o ret.chunk
        /\ Len(ret.chunk) > 0

\* C6 as amended: a signature-prefixed buffer of at least 8 bytes whose chunks
\* from offset 8 are well formed (none at all included) and hold no IHDR comes
\* back whole, followed by the assembled chunk; when such a buffer is shorter
\* than 8 bytes, or its scan finds no IHDR and does not end exactly at the end
\* of the buffer, addPngMetadata rejects with a RangeError and returns nothing.
C6_AppendedWhenScanEndsAtEnd ==
    (Injecting /\ Decoded.ok /\ StartsWithSignature(Decoded.bytes)
        /\ NoIhdrScanned(Decoded.bytes, 8)) =>
        IF WellFormedFrom(Decoded.bytes, 8)
        THEN /\ ret.kind = "blob"
             /\ ret.pos = Len(Decoded.bytes)
             /\ ret.bytes = Decoded.bytes \o ret.chunk
             /\ Len(ret.chunk) > 0
        ELSE /\ ret.kind = "throw"
             /\ ret.error = "RangeError"

\* a signature followed by chunks, none of them IHDR, got the chunk appended
C6_Witness ==
    /\ Injected /\ StartsWithSignature(Decoded.bytes)
    /\ Len(Decoded.bytes) > 8
    /\ WellFormedFrom(Decoded.bytes, 8) /\ NoIhdrScanned(Decoded.bytes, 8)
    /\ ret.bytes = Decoded.bytes \o ret.chunk

\* C7: injecting into a valid PNG and again into the result, with the same key
\* and text, leaves both tEXt chunks in place after IHDR, the second inserted
\* before the first, and the result is longer than the original by twice the
\* size of the chunk.
C7_TwoChunksAfterTwoInjections ==
    (Injecting /\ prev.kind = "blob" /\ ValidPng(prev.input)) =>
        LET b == prev.input
            p == FirstIhdrEnd(b, 8)
            c == prev.chunk
            k == Encode(call.key)
            q == p + Len(c)
        IN  /\ ret.kind = "blob"
            /\ ret.bytes = SubSeq(b, 1, p) \o c \o c \o SubSeq(b, p + 1, Len(b))
            /\ Len(ret.bytes) = Len(b) + (2 * Len(c))
            /\ SubSeq(ret.bytes, p + 5, p + 8) = <<116, 69, 88, 116>>
            /\ SubSeq(ret.bytes, q + 5, q + 8) = <<116, 69, 88, 116>>
            /\ SubSeq(ret.bytes, p + 9, p + 8 + Len(k)) = k
            /\ SubSeq(ret.bytes, q + 9, q + 8 + Len(k)) = k

\* a PNG with a chunk after IHDR was injected twice with 'Description'
C7_Witness ==
    /\ Injecting /\ prev.kind = "blob" /\ ValidPng(prev.input)
    /\ FirstIhdrEnd(prev.input, 8) < Len(prev.input)
    /\ call.key = DescriptionKey
    /\ ret.kind = "blob"
    /\ Len(ret.bytes) = Len(prev.input) + 58

\* C8: with a whole IHDR chunk of length 0 at offset 8 the chunk goes in at
\* offset 20; with an IHDR chunk that ends where the buffer ends the chunk
\* goes in at the end of the buffer; addPngMetadata returns in both cases.
C8_BoundaryInsertions ==
    (Injecting /\ Decoded.ok /\ StartsWithSignature(Decoded.bytes)) =>
        LET b == Decoded.bytes
        IN  /\ (Len(b) >= 20 /\ SubSeq(b, 9, 16) = <<0, 0, 0, 0, 73, 72, 68, 82>>) =>
                   /\ ret.kind = "blob"
                   /\ ret.pos = 20
                   /\ SubSeq(ret.bytes, 1, 20) = SubSeq(b, 1, 20)
                   /\ SubSeq(ret.bytes, 21, 20 + Len(ret.chunk)) = ret.chunk
                   /\ Len(ret.chunk) > 0
            /\ (ValidPng(b) /\ FirstIhdrEnd(b, 8) = Len(b)) =>
                   /\ ret.kind = "blob"
                   /\ ret.pos = Len(b)
                   /\ ret.bytes = b \o ret.chunk
                   /\ Len(ret.chunk) > 0

\* a zero-length IHDR that is also the last chunk: the chunk went in at 20,
\* the end of the buffer
C8_Witness ==
    /\ Injected
    /\ Decoded.bytes = Signature \o Chunk(IhdrTag, 0)
    /\ ret.pos = 20
    /\ ret.bytes = Decoded.bytes \o ret.chunk

\* C9: every run of handleDownload triggers exactly one download: of the blob
\* when addPngMetadata returned one, of the original image URL when it threw.
C9_ExactlyOneDownload ==
    (pc = "returned" /\ call.op = "handleDownload") =>
        /\ Len(downloads) = 1
        /\ ret.kind \in {"blob", "throw"}
        /\ ret.kind = "blob" =>
               downloads[1].href = "blob" /\ downloads[1].content = ret.bytes
        /\ ret.kind = "throw" =>
               downloads[1].href = "url" /\ downloads[1].content = call.url

\* a run on a URL whose payload atob rejects downloaded the original URL
C9_Witness ==
    /\ pc = "returned" /\ call.op = "handleDownload"
    /\ ret.kind = "throw" /\ ret.error = "InvalidCharacterError"
    /\ Len(downloads) = 1 /\ downloads[1].href = "url"

\* C10: the table has 256 entries and table[n] is the unsigned 32-bit value in
\* [0, 2^32) that eight shift-and-XOR steps make of n, in every state (no call
\* changes an entry).
C10_TableUnsignedAndFixed ==
    /\ DOMAIN crcTable = 0..255
    /\ \A n \in 0..255 : crcTable[n] = RefByte(<<0, n>>)

\* C11: in every state isGenerating is true exactly when a run of
\* generateImage is in flight, and at most one run is in flight.
C11_GeneratingIffOneRunInFlight ==
    /\ isGenerating <=> (Len(runs) > 0)
    /\ Len(runs) <= 1

\* C12: once the user has asked a listening recognizer to stop, isListening
\* becomes false, with a recognizer made at mount or without one.
C12_StopLeadsToNotListening == (isListening /\ stopRequested) ~> ~isListening

====
